---- MODULE Spec2Model ----
(***************************************************************************)
(* Table-data layer of the table viewer (tableviewer.py): the ordered      *)
(* dictionary used as row cache, the database-backed view DBTable and the  *)
(* in-memory view PlainTable.  Row and column indices are 0-based as in    *)
(* the Python source; TLA+ sequences are 1-based, hence the +1 in At.      *)
(***************************************************************************)
EXTENDS Integers, Sequences, FiniteSets, TLC

VARIABLES
    table_name,       \* DBTable.table_name
    filter,           \* TableData.filter
    cache,            \* DBTable.cache, an odict: [keys, data]
    shown_columns,    \* DBTable.shown_columns
    order_by,         \* DBTable.order_by (column labels)
    order_direction,  \* DBTable.order_direction
    rmin,             \* DBTable.rmin
    rmax,             \* DBTable.rmax
    sortdir,          \* PlainTable.sortdir
    sortcols,         \* PlainTable.sortcols
    row_order,        \* PlainTable.row_order
    col_order,        \* PlainTable.col_order (same object as shown_columns)
    ordered_data,     \* PlainTable.ordered_data
    call,             \* history: the last operation called and its arguments
    ret,              \* history: what that operation returned or raised
    ins_log,          \* history: keys in the order they entered the cache
                      \*          since it was last emptied
    _rows,            \* TableData._rows of the database view
    _cols,            \* TableData._cols of the database view
    grid_rows,        \* the number of rows the grid believes the table has
    grid_cols,        \* the number of columns the grid believes it has
    data_types,       \* PlainTable.data: the type of the cells of each column
    plain_key_indices,\* PlainTable.key_indices
    csv_file,         \* the rows of the file save_to_csv wrote, <<>>: none
    loaded            \* the in-memory view load_csv built from that file

dbvars == <<table_name, filter, cache, shown_columns, order_by,
            order_direction, rmin, rmax, ins_log>>
plainvars == <<sortdir, sortcols, row_order, col_order, ordered_data>>
gridvars == <<_rows, _cols, grid_rows, grid_cols>>
viewervars == <<_rows, _cols, grid_rows, grid_cols, data_types,
                plain_key_indices, csv_file, loaded>>
vars == <<table_name, filter, cache, shown_columns, order_by,
          order_direction, rmin, rmax, sortdir, sortcols, row_order,
          col_order, ordered_data, call, ret, ins_log, _rows, _cols,
          grid_rows, grid_cols, data_types, plain_key_indices, csv_file,
          loaded>>

----------------------------------------------------------------------------
(* Python helpers *)

Min(a, b) == IF a < b THEN a ELSE b
Max(a, b) == IF a > b THEN a ELSE b

\* seq[i] with a 0-based index
At(seq, i) == seq[i + 1]

\* range(n) / np.arange(n)
Arange(n) == [i \in 1..n |-> i - 1]

Range(seq) == {seq[i] : i \in 1..Len(seq)}

InSeq(seq, x) == \E i \in 1..Len(seq) : seq[i] = x

\* list.index(x), 0-based
IndexOf(seq, x) == (CHOOSE i \in 1..Len(seq) : seq[i] = x /\ \A j \in 1..(i - 1) : seq[j] # x) - 1

\* list.remove(x): drops the first occurrence
Remove(seq, x) ==
    LET i == IndexOf(seq, x) + 1
    IN  SubSeq(seq, 1, i - 1) \o SubSeq(seq, i + 1, Len(seq))

\* seq[::-1]
Reverse(seq) == [i \in 1..Len(seq) |-> seq[Len(seq) + 1 - i]]

\* seq[:-n]
DropLast(seq, n) == SubSeq(seq, 1, Max(Len(seq) - n, 0))

\* seq[-n:]
LastN(seq, n) == SubSeq(seq, Max(Len(seq) - n, 0) + 1, Len(seq))

\* Arguments of set_row_interval: None, an integer, or a string that is not
\* a number (int('abc') raises ValueError).
PyNone == [kind |-> "None", v |-> 0]
PyInt(n) == [kind |-> "int", v |-> n]
PyStr == [kind |-> "str", v |-> 0]

----------------------------------------------------------------------------
(* The backing store (dbconnect), reached through db.execute and          *)
(* db.GetColumnNames: tables, a row count, and an ordered, filtered,       *)
(* limited SELECT.                                                         *)

ImageTable == "per_image"
ObjectTable == "per_object"
\* A table that is neither the image table nor the object table
WellTable == "per_well"

NImageRows == 10
NObjectRows == 5100
NWellRows == 4

NoFilter == ""
CountFilter == "WHERE Count > 1"
Filters == {NoFilter, CountFilter}

ASC == "ASC"
DESC == "DESC"

GetColumnNames(t) ==
    IF t = ImageTable THEN <<"ImageNumber", "Count", "Mean">>
    ELSE IF t = ObjectTable THEN <<"ImageNumber", "ObjectNumber", "Area">>
    ELSE <<"Well", "Total">>

StoreRowCount(t) ==
    IF t = ImageTable THEN NImageRows
    ELSE IF t = ObjectTable THEN NObjectRows
    ELSE NWellRows

\* dbconnect.image_key_columns() and dbconnect.object_key_columns()
image_key_columns == <<"ImageNumber">>
object_key_columns == <<"ImageNumber", "ObjectNumber">>

\* The value stored in row r (0-based, in storage order) of table t, in the
\* column at position j (1-based) of GetColumnNames(t).
Cell(t, r, j) ==
    IF t = ImageTable
    THEN CASE j = 1 -> r + 1
           [] j = 2 -> (r * 3) % 4
           [] OTHER -> r % 3
    ELSE IF t = ObjectTable
    THEN CASE j = 1 -> (r \div 2000) + 1
           [] j = 2 -> (r % 4) + 1
           [] OTHER -> (r * 7) % 5
    ELSE CASE j = 1 -> r + 1
           [] OTHER -> r % 2

\* Cell values of table t lie in 0..MaxCell(t).
MaxCell(t) == IF t = ObjectTable THEN 4 ELSE StoreRowCount(t)

ColumnPos(t, label) == IndexOf(GetColumnNames(t), label) + 1

\* WHERE clause: the rows of t that pass the filter, in storage order.
FilterPass(t, f, r) == f = NoFilter \/ Cell(t, r, 2) > 1

FilteredRows(t, f) ==
    SelectSeq(Arange(StoreRowCount(t)), LAMBDA r : FilterPass(t, f, r))

\* One stable pass of ORDER BY on one column: rows grouped by value, values
\* ascending or descending, rows of equal value keeping their order.
RECURSIVE Buckets(_, _, _, _, _)
Buckets(t, rows, j, v, dir) ==
    IF v < 0 \/ v > MaxCell(t) THEN <<>>
    ELSE SelectSeq(rows, LAMBDA r : Cell(t, r, j) = v)
           \o Buckets(t, rows, j, IF dir = ASC THEN v + 1 ELSE v - 1, dir)

SortPass(t, rows, j, dir) ==
    Buckets(t, rows, j, IF dir = ASC THEN 0 ELSE MaxCell(t), dir)

\* ORDER BY c1 dir, c2 dir, ...: c1 is the primary key.
RECURSIVE OrderRows(_, _, _, _)
OrderRows(t, rows, ob, dir) ==
    IF ob = <<>> THEN rows
    ELSE SortPass(t, OrderRows(t, rows, Tail(ob), dir), ColumnPos(t, Head(ob)), dir)

\* Non-empty lists of distinct labels
LabelLists(labels) ==
    {<<a>> : a \in labels} \cup
    {<<a, b>> : <<a, b>> \in {p \in labels \X labels : p[1] # p[2]}} \cup
    {<<a, b, c>> : <<a, b, c>> \in {p \in labels \X labels \X labels :
                        p[1] # p[2] /\ p[1] # p[3] /\ p[2] # p[3]}}

\* The queries the views can issue: the image table under every filter and
\* sort clause, the object table sorted on its two key columns, the other
\* table under every sort clause.
OrderKeys ==
    ({ImageTable} \X Filters \X LabelLists(Range(GetColumnNames(ImageTable)))
        \X {ASC, DESC})
    \cup
    ({ObjectTable} \X {NoFilter} \X LabelLists({"ImageNumber", "ObjectNumber"})
        \X {ASC, DESC})
    \cup
    ({WellTable} \X {NoFilter} \X LabelLists(Range(GetColumnNames(WellTable)))
        \X {ASC, DESC})

\* The result set of SELECT ... FROM t f ORDER BY ob dir, as row ids.
OrderTable ==
    [k \in OrderKeys |-> OrderRows(k[1], FilteredRows(k[1], k[2]), k[3], k[4])] @@ <<>>

\* SELECT COUNT(*) FROM t f
Count(t, f) == Len(OrderTable[<<t, f, <<At(GetColumnNames(t), 0)>>, ASC>>])

\* SELECT labels FROM t f ORDER BY ob dir LIMIT lo, n
Select(t, labels, f, ob, dir, lo, n) ==
    LET rows == OrderTable[<<t, f, ob, dir>>]
        last == Min(lo + n, Len(rows))
        pos == [j \in 1..Len(labels) |-> ColumnPos(t, labels[j])]
    IN  [i \in 1..Max(last - lo, 0) |->
            [j \in 1..Len(labels) |-> Cell(t, rows[lo + i], pos[j])]]

----------------------------------------------------------------------------
(* odict: an insertion-ordered dictionary, _keys (a list) and _data (a dict) *)

OdictNew == [keys |-> <<>>, data |-> <<>>]

OdictHas(d, key) == key \in DOMAIN d.data

OdictLen(d) == Len(d.keys)

\* __setitem__: a new key is appended to the key list, a known key keeps
\* its place; the value is stored either way.
OdictSetItem(d, key, value) ==
    [keys |-> IF key \notin DOMAIN d.data THEN Append(d.keys, key) ELSE d.keys,
     data |-> (key :> value) @@ d.data]

\* Variant: the last pair is left out.
OdictUpdateDroppingLast(d, lo, vals) ==
    LET batch == [i \in 1..(Len(vals) - 1) |-> lo + i - 1]
    IN  [keys |-> d.keys \o SelectSeq(batch, LAMBDA k : k \notin DOMAIN d.data),
         data |-> [k \in Range(batch) |-> vals[k - lo + 1]] @@ d.data]

\* DictMixin.update with the pairs (lo + i, vals[i]), i = 0, 1, ...: one
\* __setitem__ per pair, in order.  The keys of the pairs are distinct, so
\* the new ones are appended in the order of the pairs.
OdictUpdate(d, lo, vals) ==
    LET batch == [i \in 1..Len(vals) |-> lo + i - 1]
    IN  [keys |-> d.keys \o SelectSeq(batch, LAMBDA k : k \notin DOMAIN d.data),
         data |-> [k \in Range(batch) |-> vals[k - lo + 1]] @@ d.data]

\* Variant: keys() hands out the live key list, so the loop of clear
\* deletes while it iterates and skips every second key.
OdictClearSkipping(d) ==
    LET kept == SelectSeq(d.keys, LAMBDA k : IndexOf(d.keys, k) % 2 = 1)
    IN  [keys |-> kept, data |-> [k \in Range(kept) |-> d.data[k]]]

\* DictMixin.clear: for key in self.keys(): del self[key].  keys() is a copy
\* of the key list, so every key is deleted.
OdictClear(d) == OdictNew

\* del d[key] for each key of victims, a prefix of the key list
OdictDelAll(d, victims) ==
    LET kept == SubSeq(d.keys, Len(victims) + 1, Len(d.keys))
    IN  [keys |-> kept, data |-> [k \in Range(kept) |-> d.data[k]]]

----------------------------------------------------------------------------
(* DBTable *)

CacheHigh == 5000
CacheLow == 500
HalfBatch == 25

col_labels == GetColumnNames(table_name)

\* col_labels[shown_columns]
ShownLabels == [i \in 1..Len(shown_columns) |-> At(col_labels, shown_columns[i])]

get_total_number_of_rows == Count(table_name, filter)

GetNumberRows ==
    IF rmax # 0 /\ rmin # 0
    THEN Min(rmax, get_total_number_of_rows) - rmin + 1
    ELSE get_total_number_of_rows

GetNumberCols == Len(shown_columns)

\* The state the constructor DBTable(table_name) leaves: set_table, no
\* filter, set_row_interval(None, None), and the counts TableData.__init__
\* takes of the new view.
DBInit(t) ==
    /\ table_name = t
    /\ filter = NoFilter
    /\ cache = OdictNew
    /\ shown_columns = Arange(Len(GetColumnNames(t)))
    /\ order_by = <<At(GetColumnNames(t), 0)>>
    /\ order_direction = ASC
    /\ rmin = 0
    /\ rmax = Count(t, NoFilter)
    /\ ins_log = <<>>
    /\ _rows = Count(t, NoFilter)
    /\ _cols = Len(GetColumnNames(t))
    /\ grid_rows = Count(t, NoFilter)
    /\ grid_cols = Len(GetColumnNames(t))

set_filter(f) ==
    /\ filter' = f
    /\ call' = [op |-> "set_filter", filter |-> f, old |-> filter,
                cached |-> OdictLen(cache) > 0]
    /\ ret' = [err |-> "", val |-> 0]
    /\ UNCHANGED <<table_name, cache, shown_columns, order_by, order_direction,
                   rmin, rmax, ins_log>>
    /\ UNCHANGED plainvars
    /\ UNCHANGED viewervars

\* Variant: the projection changes and the cache is left as it is.
DB_set_shown_columns_KeepCache(col_indices) ==
    /\ shown_columns' = col_indices
    /\ call' = [op |-> "DBTable.set_shown_columns", col_indices |-> col_indices,
                old |-> shown_columns, cached |-> OdictLen(cache) > 0]
    /\ ret' = [err |-> "", val |-> 0]
    /\ UNCHANGED <<table_name, filter, order_by, order_direction, rmin, rmax,
                   cache, ins_log>>
    /\ UNCHANGED plainvars
    /\ UNCHANGED viewervars

DB_set_shown_columns(col_indices) ==
    /\ shown_columns' = col_indices
    /\ cache' = OdictClear(cache)
    /\ ins_log' = <<>>
    /\ call' = [op |-> "DBTable.set_shown_columns", col_indices |-> col_indices,
                old |-> shown_columns, cached |-> OdictLen(cache) > 0]
    /\ ret' = [err |-> "", val |-> 0]
    /\ UNCHANGED <<table_name, filter, order_by, order_direction, rmin, rmax>>
    /\ UNCHANGED plainvars
    /\ UNCHANGED viewervars

DB_set_sort_col(col_index, add) ==
    LET col == At(col_labels, col_index)
    IN  /\ IF add
           THEN /\ order_by' =
                     IF InSeq(order_by, col)
                     THEN IF Remove(order_by, col) = <<>>
                          THEN <<At(col_labels, 0)>>
                          ELSE Remove(order_by, col)
                     ELSE order_by \o <<col>>
                /\ UNCHANGED order_direction
           ELSE IF InSeq(order_by, col)
                THEN /\ order_direction' = IF order_direction = ASC THEN DESC ELSE ASC
                     /\ UNCHANGED order_by
                ELSE /\ order_by' = <<col>>
                     /\ UNCHANGED order_direction
        /\ cache' = OdictClear(cache)
        /\ ins_log' = <<>>
        /\ call' = [op |-> "DBTable.set_sort_col", col_index |-> col_index,
                    add |-> add, cached |-> OdictLen(cache) > 0]
        /\ ret' = [err |-> "", val |-> 0]
        /\ UNCHANGED <<table_name, filter, shown_columns, rmin, rmax>>
        /\ UNCHANGED plainvars
        /\ UNCHANGED viewervars

\* int(x) succeeds
IntParses(x) == x.kind = "int"

set_row_interval(a, b) ==
    LET lo == IF a = PyNone THEN PyInt(0) ELSE a
        hi == IF b = PyNone THEN PyInt(get_total_number_of_rows) ELSE b
    IN  /\ cache' = OdictClear(cache)
        /\ ins_log' = <<>>
        /\ IF IntParses(lo) /\ IntParses(hi)
           THEN /\ rmin' = lo.v
                /\ rmax' = hi.v
                /\ ret' = [err |-> "", val |-> 0]
           ELSE /\ UNCHANGED <<rmin, rmax>>
                /\ ret' = [err |-> "Invalid row interval", val |-> 0]
        /\ call' = [op |-> "set_row_interval", rmin |-> a, rmax |-> b,
                    cached |-> OdictLen(cache) > 0]
        /\ UNCHANGED <<table_name, filter, shown_columns, order_by, order_direction>>
        /\ UNCHANGED plainvars
        /\ UNCHANGED viewervars

\* Variant: the slice is taken from the wrong end, keys()[500:], and the
\* oldest entries are the ones that stay.
EvictKeepsOldest(c) ==
    LET kept == SubSeq(c.keys, 1, Min(CacheLow, Len(c.keys)))
    IN  [keys |-> kept, data |-> [k \in Range(kept) |-> c.data[k]]]

\* Variant: the loop runs over an empty slice and deletes nothing.
EvictNothing(c) == c

\* Variant: the slice is keys()[-500:], and the newest entries are the
\* ones deleted.
EvictDropsNewest(c) ==
    LET kept == DropLast(c.keys, CacheLow)
    IN  [keys |-> kept, data |-> [k \in Range(kept) |-> c.data[k]]]

\* for key in self.cache.keys()[:-500]: del self.cache[key]
Evict(c) == OdictDelAll(c, DropLast(c.keys, CacheLow))

\* Variant: the store is queried whether the cache holds the row or not.
CacheMissAlways(c, r) == TRUE

\* if not row in self.cache
CacheMiss(c, r) == ~OdictHas(c, r)

GetValue(row, col) ==
    LET r == row + rmin
        lo == Max(r - HalfBatch, 0)
        hi == r + HalfBatch
        vals == Select(table_name, ShownLabels, filter, order_by,
                       order_direction, lo, hi - lo)
        filled == OdictUpdate(cache, lo, vals)
        after == IF OdictLen(filled) > CacheHigh THEN Evict(filled) ELSE filled
        fresh == SelectSeq([i \in 1..Len(vals) |-> lo + i - 1],
                           LAMBDA k : ~OdictHas(cache, k))
        hit == ~CacheMiss(cache, r)
    IN  /\ cache' = IF hit THEN cache ELSE after
        /\ ins_log' = IF hit THEN ins_log ELSE ins_log \o fresh
        /\ call' = [op |-> "GetValue", row |-> row, col |-> col,
                    miss |-> ~hit,
                    selects |-> IF hit THEN 0 ELSE 1,
                    got |-> IF hit THEN 0 ELSE Len(vals),
                    new |-> IF hit THEN 0 ELSE Len(fresh),
                    peak |-> IF hit THEN OdictLen(cache)
                             ELSE OdictLen(filled)]
        /\ ret' = IF OdictHas(cache', r)
                  THEN [err |-> "", val |-> At(cache'.data[r], col)]
                  ELSE [err |-> "KeyError", val |-> 0]
        /\ UNCHANGED <<table_name, filter, shown_columns, order_by,
                       order_direction, rmin, rmax>>
        /\ UNCHANGED plainvars
        /\ UNCHANGED viewervars

\* The row GetValue(row, col) reads its cell from in the current state, or
\* the KeyError it raises
GetValueRow(row) ==
    LET r == row + rmin
        lo == Max(r - HalfBatch, 0)
        hi == r + HalfBatch
        vals == Select(table_name, ShownLabels, filter, order_by,
                       order_direction, lo, hi - lo)
        filled == OdictUpdate(cache, lo, vals)
        after == IF OdictLen(filled) > CacheHigh THEN Evict(filled) ELSE filled
        now == IF OdictHas(cache, r) THEN cache ELSE after
    IN  IF OdictHas(now, r)
        THEN [err |-> "", row |-> now.data[r]]
        ELSE [err |-> "KeyError", row |-> <<>>]

\* key_indices as set_table leaves it: the positions of the key columns for
\* the image table and for the object table, None for any other table.
key_indices ==
    IF table_name = ImageTable
    THEN [kind |-> "list",
          v |-> [i \in 1..Len(image_key_columns) |-> IndexOf(col_labels, image_key_columns[i])]]
    ELSE IF table_name = ObjectTable
    THEN [kind |-> "list",
          v |-> [i \in 1..Len(object_key_columns) |-> IndexOf(col_labels, object_key_columns[i])]]
    ELSE [kind |-> "None", v |-> <<>>]

\* get_row_key(row): what it returns or raises.  col_labels[None] is a 2-D
\* array, whose rows str.join rejects with a TypeError; the [0] of an empty
\* result raises an IndexError.
get_row_key(row) ==
    LET cols == [i \in 1..Len(key_indices.v) |-> At(col_labels, key_indices.v[i])]
        found == Select(table_name, cols, filter, order_by, order_direction, row, 1)
    IN  IF key_indices.kind = "None" THEN [err |-> "TypeError", val |-> <<>>]
        ELSE IF found = <<>> THEN [err |-> "IndexError", val |-> <<>>]
        ELSE [err |-> "", val |-> found[1]]

\* A call of get_row_key(row)
DB_get_row_key(row) ==
    /\ ret' = get_row_key(row)
    /\ call' = [op |-> "get_row_key", row |-> row]
    /\ UNCHANGED dbvars
    /\ UNCHANGED plainvars
    /\ UNCHANGED viewervars

get_image_keys_at_row(row) ==
    LET key == get_row_key(row)
    IN  /\ ret' = IF key.err # "" THEN key
                  ELSE IF table_name = ImageTable
                  THEN [err |-> "", val |-> <<key.val>>]
                  ELSE IF table_name = ObjectTable
                  THEN [err |-> "", val |-> <<DropLast(key.val, 1)>>]
                  ELSE [err |-> "NotImplementedError", val |-> <<>>]
        /\ call' = [op |-> "get_image_keys_at_row", row |-> row]
        /\ UNCHANGED dbvars
        /\ UNCHANGED plainvars
        /\ UNCHANGED viewervars

\* GetColLabelValue(col_index): the label, the 1-based rank shown when there
\* are several sort columns (0: none shown) and the arrow.
DB_GetColLabelValue(col_index) ==
    LET col == At(ShownLabels, col_index)
    IN  IF InSeq(order_by, col)
        THEN [col |-> col,
              rank |-> IF Len(order_by) > 1 THEN IndexOf(order_by, col) + 1 ELSE 0,
              arrow |-> IF order_direction = ASC THEN "v" ELSE "^"]
        ELSE [col |-> col, rank |-> 0, arrow |-> ""]

\* SetValue prints that the call is ignored.
DB_SetValue(row, col, value) ==
    /\ call' = [op |-> "DBTable.SetValue", row |-> row, col |-> col, value |-> value]
    /\ ret' = [err |-> "", val |-> 0]
    /\ UNCHANGED dbvars
    /\ UNCHANGED plainvars
    /\ UNCHANGED viewervars

\* The message ResetView sends the grid for one dimension: rows or columns
\* deleted at position new, rows or columns appended, or no message.
GridTableMessage(current, new) ==
    IF new < current THEN [kind |-> "deleted", pos |-> new, n |-> current - new]
    ELSE IF new > current THEN [kind |-> "appended", pos |-> 0, n |-> new - current]
    ELSE [kind |-> "", pos |-> 0, n |-> 0]

\* grid.ProcessTableMessage(msg): the grid's count after the message
ProcessTableMessage(count, msg) ==
    IF msg.kind = "deleted" THEN count - msg.n
    ELSE IF msg.kind = "appended" THEN count + msg.n
    ELSE count

\* TableData.ResetView(grid), on the database view
ResetView ==
    LET rows_msg == GridTableMessage(_rows, GetNumberRows)
        cols_msg == GridTableMessage(_cols, GetNumberCols)
    IN  /\ grid_rows' = ProcessTableMessage(grid_rows, rows_msg)
        /\ grid_cols' = ProcessTableMessage(grid_cols, cols_msg)
        /\ _rows' = GetNumberRows
        /\ _cols' = GetNumberCols
        /\ call' = [op |-> "ResetView", rows_msg |-> rows_msg, cols_msg |-> cols_msg,
                    old_rows |-> grid_rows, old_cols |-> grid_cols]
        /\ ret' = [err |-> "", val |-> 0]
        /\ UNCHANGED dbvars
        /\ UNCHANGED plainvars
        /\ UNCHANGED <<data_types, plain_key_indices, csv_file, loaded>>

----------------------------------------------------------------------------
(* PlainTable *)

\* The 2-D array handed to the constructor: one tuple per row.
PlainData ==
    << <<1, 2, 0>>,
       <<0, 2, 1>>,
       <<1, 1, 0>>,
       <<0, 1, 1>>,
       <<1, 2, 1>> >>

\* data.shape
PlainRows == Len(PlainData)
PlainCols == Len(PlainData[1])

\* data[:, j] for a 0-based column index j, as a list over the rows
DataCol(j) == [r \in 1..PlainRows |-> At(PlainData[r], j)]

\* Variant: x goes before the rows of equal key, as in a sort that is not
\* stable.
StableInsertBeforeEqual(sorted, x, key) ==
    LET n == Cardinality({i \in 1..Len(sorted) : At(key, sorted[i]) < At(key, x)})
    IN  SubSeq(sorted, 1, n) \o <<x>> \o SubSeq(sorted, n + 1, Len(sorted))

\* Inserts row x into a list of rows sorted on key, after the rows whose key
\* is not greater.
StableInsert(sorted, x, key) ==
    LET n == Cardinality({i \in 1..Len(sorted) : At(key, sorted[i]) <= At(key, x)})
    IN  SubSeq(sorted, 1, n) \o <<x>> \o SubSeq(sorted, n + 1, Len(sorted))

RECURSIVE StableSort(_, _, _, _)
StableSort(order, key, i, acc) ==
    IF i > Len(order) THEN acc
    ELSE StableSort(order, key, i + 1, StableInsert(acc, order[i], key))

\* np.lexsort(keys): an indirect stable sort on the keys, the last key
\* being the primary one.
RECURSIVE LexsortFrom(_, _, _)
LexsortFrom(keys, i, order) ==
    IF i > Len(keys) THEN order
    ELSE LexsortFrom(keys, i + 1, StableSort(order, keys[i], 1, <<>>))

Lexsort(keys) == LexsortFrom(keys, 1, Arange(Len(keys[1])))

\* data[rows, :][:, cols]
Take(rows, cols) ==
    [i \in 1..Len(rows) |-> [j \in 1..Len(cols) |-> At(PlainData[rows[i] + 1], cols[j])]]

\* The state the constructor PlainTable(grid, data, col_labels, key_indices,
\* grouping) leaves; types are the types of the columns of data.
PlainTableInit(types, keys) ==
    /\ sortdir = 1
    /\ sortcols = <<>>
    /\ row_order = Arange(PlainRows)
    /\ col_order = Arange(PlainCols)
    /\ ordered_data = PlainData
    /\ data_types = types
    /\ plain_key_indices = keys
    /\ csv_file = <<>>
    /\ loaded = [labels |-> <<>>, data |-> <<>>]

\* table_from_array: numbers in every column, no key columns
PlainInit == PlainTableInit([j \in 1..PlainCols |-> "int"], [kind |-> "None", v |-> <<>>])

\* Variant: the projection also puts the rows back in their original order
\* and empties the sort list.
Plain_set_shown_columns_ResetsSort(col_indices) ==
    /\ col_order' = col_indices
    /\ sortcols' = <<>>
    /\ sortdir' = 1
    /\ row_order' = Arange(PlainRows)
    /\ ordered_data' = Take(row_order', col_indices)
    /\ call' = [op |-> "PlainTable.set_shown_columns", col_indices |-> col_indices,
                old |-> col_order]
    /\ ret' = [err |-> "", val |-> 0]
    /\ UNCHANGED dbvars
    /\ UNCHANGED viewervars

\* Variant: the displayed data are rebuilt from the rows in their original
\* order, data[:, col_order].
Plain_set_shown_columns_IgnoresRowOrder(col_indices) ==
    /\ col_order' = col_indices
    /\ ordered_data' = Take(Arange(PlainRows), col_indices)
    /\ call' = [op |-> "PlainTable.set_shown_columns", col_indices |-> col_indices,
                old |-> col_order]
    /\ ret' = [err |-> "", val |-> 0]
    /\ UNCHANGED <<sortdir, sortcols, row_order>>
    /\ UNCHANGED dbvars
    /\ UNCHANGED viewervars

\* Every index names a column of data: indexing data with col_indices
\* raises no IndexError.
ValidColumns(col_indices) ==
    \A i \in 1..Len(col_indices) : col_indices[i] < PlainCols

\* shown_columns and col_order are assigned first; the line that rebuilds
\* ordered_data raises IndexError on an index data has no column for.
Plain_set_shown_columns(col_indices) ==
    /\ col_order' = col_indices
    /\ IF ValidColumns(col_indices)
       THEN /\ ordered_data' = Take(row_order, col_indices)
            /\ ret' = [err |-> "", val |-> 0]
       ELSE /\ UNCHANGED ordered_data
            /\ ret' = [err |-> "IndexError", val |-> 0]
    /\ call' = [op |-> "PlainTable.set_shown_columns", col_indices |-> col_indices,
                old |-> col_order]
    /\ UNCHANGED <<sortdir, sortcols, row_order>>
    /\ UNCHANGED dbvars
    /\ UNCHANGED viewervars

\* The labels handed to the constructor
PlainColLabels == GetColumnNames(ImageTable)

\* ordered_data.shape[0] and ordered_data.shape[1]
Plain_GetNumberRows == Len(ordered_data)
Plain_GetNumberCols == Len(ordered_data[1])

\* col_labels[shown_columns][col_index]
Plain_GetColLabelValueWithoutDecoration(col_index) ==
    At(PlainColLabels, At(col_order, col_index))

\* GetColLabelValue(col_index), as for the database view
Plain_GetColLabelValue(col_index) ==
    LET col == At(PlainColLabels, At(col_order, col_index))
    IN  IF InSeq(sortcols, col_index)
        THEN [col |-> col,
              rank |-> IF Len(sortcols) > 1 THEN IndexOf(sortcols, col_index) + 1 ELSE 0,
              arrow |-> IF sortdir > 0 THEN "v" ELSE "^"]
        ELSE [col |-> col, rank |-> 0, arrow |-> ""]

\* ordered_data[row, col]
PlainGetValue(row, col) == At(At(ordered_data, row), col)

Plain_GetValue(row, col) ==
    /\ call' = [op |-> "PlainTable.GetValue", row |-> row, col |-> col]
    /\ ret' = [err |-> "", val |-> PlainGetValue(row, col)]
    /\ UNCHANGED plainvars
    /\ UNCHANGED dbvars
    /\ UNCHANGED viewervars

\* PlainTable.grouping: 'image' when key columns were handed to the
\* constructor, None otherwise
grouping == IF plain_key_indices.kind = "None" THEN "None" ELSE "image"

\* tuple(self.ordered_data[row, self.key_indices]), or the IndexError of an
\* index the displayed data have no column for
OrderedDataKey(row) ==
    IF \E i \in 1..Len(plain_key_indices.v) :
           plain_key_indices.v[i] >= Plain_GetNumberCols
    THEN [err |-> "IndexError", val |-> <<>>]
    ELSE [err |-> "",
          val |-> [i \in 1..Len(plain_key_indices.v) |->
                      At(At(ordered_data, row), plain_key_indices.v[i])]]

Plain_get_row_key(row) ==
    /\ ret' = IF plain_key_indices.kind = "None"
              THEN [err |-> "", val |-> "None"]
              ELSE OrderedDataKey(row)
    /\ call' = [op |-> "PlainTable.get_row_key", row |-> row]
    /\ UNCHANGED plainvars
    /\ UNCHANGED dbvars
    /\ UNCHANGED viewervars

Plain_get_image_keys_at_row(row) ==
    /\ ret' = IF plain_key_indices.kind = "None" \/ grouping = "None"
              THEN [err |-> "", val |-> "None"]
              ELSE IF OrderedDataKey(row).err # "" THEN OrderedDataKey(row)
              ELSE [err |-> "", val |-> <<OrderedDataKey(row).val>>]
    /\ call' = [op |-> "PlainTable.get_image_keys_at_row", row |-> row]
    /\ UNCHANGED plainvars
    /\ UNCHANGED dbvars
    /\ UNCHANGED viewervars

\* Variant: the value is written into the displayed data.
Plain_SetValue_Stores(row, col, value) ==
    /\ ordered_data' = [ordered_data EXCEPT ![row + 1][col + 1] = value]
    /\ call' = [op |-> "PlainTable.SetValue", row |-> row, col |-> col, value |-> value]
    /\ ret' = [err |-> "", val |-> 0]
    /\ UNCHANGED <<sortdir, sortcols, row_order, col_order>>
    /\ UNCHANGED dbvars
    /\ UNCHANGED viewervars

\* SetValue logs a warning and does nothing else.
Plain_SetValue(row, col, value) ==
    /\ call' = [op |-> "PlainTable.SetValue", row |-> row, col |-> col, value |-> value]
    /\ ret' = [err |-> "", val |-> 0]
    /\ UNCHANGED plainvars
    /\ UNCHANGED dbvars
    /\ UNCHANGED viewervars

\* Variant: the sort list is handed to np.lexsort without the [::-1].
AddKeysInListOrder(cols) == [i \in 1..Len(cols) |-> DataCol(cols[i])]

\* The keys handed to np.lexsort when add is true:
\* self.data[:, self.sortcols[::-1]].T.tolist()
AddKeys(cols) == [i \in 1..Len(cols) |-> DataCol(Reverse(cols)[i])]

\* Variant: only a column that is the whole sort list counts as sorted.
AlreadySortedAlone(col_index) == sortcols = <<col_index>>

\* The test that sends a click without shift to the flip branch
AlreadySorted(col_index) == Len(sortcols) > 0 /\ InSeq(sortcols, col_index)

\* Variant: the flip changes the direction flag and forgets the rows.
FlipOrderKeepsRows(order) == order

\* The flip of a click without shift: self.row_order[::-1]
FlipOrder(order) == Reverse(order)

\* Variant: the row order is left as it was when the last sort column is
\* toggled off.
ToggledOffKeepsOrder(order) == order

\* All sort columns toggled off: np.arange(self.data.shape[0])
ToggledOffOrder(order) == Arange(PlainRows)

\* History of the clicks: the previous call, when it was a set_sort_col.
NoClick ==
    [op |-> "", col_index |-> -1, add |-> FALSE,
     pre |-> [sortcols |-> <<>>, row_order |-> <<>>, sortdir |-> 0]]

PrevClick ==
    IF call.op = "PlainTable.set_sort_col"
    THEN [op |-> call.op, col_index |-> call.col_index, add |-> call.add,
          pre |-> call.pre]
    ELSE NoClick

\* History of the clicks: a run of clicks without shift on one column that
\* began with a click on a column outside the sort list.  n is 1 after the
\* first click, 2 after the second, 3 after the third, then 2, 3, 2, ...;
\* order is the row order the first click left.
NoRun == [n |-> 0, order |-> <<>>]

ClickRun(col_index, add, order_after) ==
    IF add THEN NoRun
    ELSE IF ~AlreadySorted(col_index) THEN [n |-> 1, order |-> order_after]
    ELSE IF /\ call.op = "PlainTable.set_sort_col"
            /\ call.col_index = col_index
            /\ call.run.n > 0
         THEN [n |-> IF call.run.n = 3 THEN 2 ELSE call.run.n + 1,
               order |-> call.run.order]
         ELSE NoRun

Plain_set_sort_col(col_index, add) ==
    /\ IF ~add
       THEN IF AlreadySorted(col_index)
            THEN /\ row_order' = FlipOrder(row_order)
                 /\ sortdir' = -sortdir
                 /\ UNCHANGED sortcols
            ELSE /\ sortdir' = 1
                 /\ sortcols' = <<col_index>>
                 /\ row_order' = Lexsort(<<DataCol(At(col_order, col_index))>>)
       ELSE /\ sortcols' = IF Len(sortcols) > 0 /\ InSeq(sortcols, col_index)
                           THEN Remove(sortcols, col_index)
                           ELSE sortcols \o <<col_index>>
            /\ row_order' = IF sortcols' = <<>>
                            THEN ToggledOffOrder(row_order)
                            ELSE Lexsort(AddKeys(sortcols'))
            /\ UNCHANGED sortdir
    /\ ordered_data' = Take(row_order', col_order)
    /\ call' = [op |-> "PlainTable.set_sort_col", col_index |-> col_index,
                add |-> add,
                pre |-> [sortcols |-> sortcols, row_order |-> row_order,
                         sortdir |-> sortdir],
                prev |-> PrevClick,
                run |-> ClickRun(col_index, add, row_order')]
    /\ ret' = [err |-> "", val |-> 0]
    /\ UNCHANGED col_order
    /\ UNCHANGED dbvars
    /\ UNCHANGED viewervars

----------------------------------------------------------------------------
(* Specifications *)

NoCall == [op |-> "__init__"]
NoRet == [err |-> "", val |-> 0]

\* Column selections offered by the show/hide dialog
ShownChoices == {<<0, 1, 2>>, <<2, 0>>}

\* Row-interval arguments
MinArgs == {PyNone, PyStr, PyInt(-1), PyInt(0), PyInt(2)}
MaxArgs == {PyNone, PyStr, PyInt(5), PyInt(12)}

\* Columns whose header is clicked, rows and columns that are read
SortChoices == {0, 1}
ReadRows == {0, 3, 8}
ReadCols == {0, 1}

\* The database view over the image table: every operation, any row.
InitDB ==
    /\ DBInit(ImageTable)
    /\ PlainInit
    /\ call = NoCall
    /\ ret = NoRet

NextDB ==
    \/ \E f \in Filters : set_filter(f)
    \/ \E ci \in ShownChoices : DB_set_shown_columns(ci)
    \/ \E c \in SortChoices, add \in BOOLEAN : DB_set_sort_col(c, add)
    \/ \E a \in MinArgs, b \in MaxArgs : set_row_interval(a, b)
    \/ \E row \in ReadRows, col \in ReadCols : GetValue(row, col)

SpecDB == InitDB /\ [][NextDB]_vars

\* The same view without filter changes.
NextSort ==
    \/ \E ci \in ShownChoices : DB_set_shown_columns(ci)
    \/ \E c \in SortChoices, add \in BOOLEAN : DB_set_sort_col(c, add)
    \/ \E a \in MinArgs, b \in MaxArgs : set_row_interval(a, b)
    \/ \E row \in ReadRows, col \in ReadCols : GetValue(row, col)

SpecSort == InitDB /\ [][NextSort]_vars

\* The in-memory view: header clicks on the displayed columns and the
\* show/hide dialog.
InitPlain ==
    /\ DBInit(ImageTable)
    /\ PlainInit
    /\ call = NoCall
    /\ ret = NoRet

NextPlain ==
    \/ \E ci \in ShownChoices : Plain_set_shown_columns(ci)
    \/ \E c \in 0..(Len(col_order) - 1), add \in BOOLEAN : Plain_set_sort_col(c, add)

SpecPlain == InitPlain /\ [][NextPlain]_vars

\* The in-memory view when the caller of set_shown_columns may name a
\* column the table does not have.  A header click on a view whose col_order
\* names such a column raises IndexError in its turn and is left out.
BadShownChoices == {<<0, PlainCols>>}

NextShown ==
    \/ \E ci \in ShownChoices \cup BadShownChoices : Plain_set_shown_columns(ci)
    \/ /\ ValidColumns(col_order)
       /\ \E c \in 0..(Len(col_order) - 1), add \in BOOLEAN : Plain_set_sort_col(c, add)

SpecShown == InitPlain /\ [][NextShown]_vars

\* The viewer: it holds one table at a time, a database view
\* (load_db_table) or an in-memory view (table_from_array, load_csv), and
\* the first call tells which.  Cells are read and, in vain, edited.
DBOps ==
    {"DBTable.set_shown_columns", "DBTable.set_sort_col", "set_row_interval",
     "GetValue", "DBTable.SetValue"}
PlainOps ==
    {"PlainTable.set_shown_columns", "PlainTable.set_sort_col",
     "PlainTable.GetValue", "PlainTable.SetValue"}
HoldsDBTable == call.op \in DBOps \cup {"__init__"}
HoldsPlainTable == call.op \in PlainOps \cup {"__init__"}

EditRows == {3}
EditCols == {1}
ViewMinArgs == {PyNone, PyInt(2)}
EditValues == {9}
PlainReadRows == {0, 4}

NextViews ==
    \/ HoldsDBTable /\ \E ci \in ShownChoices : DB_set_shown_columns(ci)
    \/ HoldsDBTable /\ \E c \in SortChoices, add \in BOOLEAN : DB_set_sort_col(c, add)
    \/ HoldsDBTable /\ \E a \in ViewMinArgs : set_row_interval(a, PyNone)
    \/ HoldsDBTable /\ \E row \in ReadRows, col \in ReadCols : GetValue(row, col)
    \/ HoldsDBTable /\ \E row \in EditRows, col \in EditCols, v \in EditValues :
                            DB_SetValue(row, col, v)
    \/ HoldsPlainTable /\ NextPlain
    \/ HoldsPlainTable /\ \E row \in PlainReadRows, col \in ReadCols :
                               Plain_GetValue(row, col)
    \/ HoldsPlainTable /\ \E row \in EditRows, col \in EditCols, v \in EditValues :
                               Plain_SetValue(row, col, v)

SpecViews == InitDB /\ [][NextViews]_vars

\* The in-memory view with or without key columns: header clicks, the
\* show/hide dialog and key lookups.
PlainKeyChoices ==
    {[kind |-> "None", v |-> <<>>], [kind |-> "list", v |-> <<0>>],
     [kind |-> "list", v |-> <<0, 2>>]}

InitPlainKeys ==
    /\ DBInit(ImageTable)
    /\ \E keys \in PlainKeyChoices :
          PlainTableInit([j \in 1..PlainCols |-> "int"], keys)
    /\ call = NoCall
    /\ ret = NoRet

NextPlainKeys ==
    \/ NextPlain
    \/ \E row \in PlainReadRows : Plain_get_row_key(row)
    \/ \E row \in PlainReadRows : Plain_get_image_keys_at_row(row)

SpecPlainKeys == InitPlainKeys /\ [][NextPlainKeys]_vars

\* A database view and an in-memory view over the same columns, both freshly
\* constructed, that receive the same header clicks: each click goes to the
\* database view first and then to the in-memory view.
PairChoices == {0, 1, 2}

NextPair ==
    \/ /\ call.op \in {"__init__", "PlainTable.set_sort_col"}
       /\ \E c \in PairChoices, add \in BOOLEAN : DB_set_sort_col(c, add)
    \/ /\ call.op = "DBTable.set_sort_col"
       /\ Plain_set_sort_col(call.col_index, call.add)

SpecPair == InitDB /\ [][NextPair]_vars

\* A database view bound to the image table, to the object table or to
\* another table; header clicks and key lookups.
KeyTables == {ImageTable, ObjectTable, WellTable}
KeyRows == {0, 1, 3}

InitKeys ==
    /\ \E t \in KeyTables : DBInit(t)
    /\ PlainInit
    /\ call = NoCall
    /\ ret = NoRet

NextKeys ==
    \/ \E c \in SortChoices, add \in BOOLEAN : DB_set_sort_col(c, add)
    \/ \E row \in KeyRows : get_image_keys_at_row(row)

SpecKeys == InitKeys /\ [][NextKeys]_vars

\* The same views under a row interval: keys are looked up and cells read.
NextRowKey ==
    \/ \E c \in SortChoices, add \in BOOLEAN : DB_set_sort_col(c, add)
    \/ \E a \in ViewMinArgs : set_row_interval(a, PyNone)
    \/ \E row \in KeyRows : DB_get_row_key(row)
    \/ \E row \in KeyRows : GetValue(row, 0)

SpecRowKey == InitKeys /\ [][NextRowKey]_vars

\* The database view over the object table, read the way a user scrolls:
\* forward one screen at a time from a start row, and back to the top once
\* the cache is within one batch of its high-water mark.
Stride == 2 * HalfBatch
TopRow == 20
StartRows == {0, 60}

InitEvict ==
    /\ DBInit(ObjectTable)
    /\ PlainInit
    /\ call = NoCall
    /\ ret = NoRet

ScrollRows ==
    IF call.op = "GetValue"
    THEN {call.row + Stride} \cup
         (IF OdictLen(cache) + 2 * HalfBatch > CacheHigh THEN {TopRow} ELSE {})
    ELSE StartRows

NextEvict ==
    \/ \E row \in ScrollRows : row + rmin < NObjectRows /\ GetValue(row, 0)
    \/ DB_set_shown_columns(<<2, 0>>)
    \/ DB_set_sort_col(1, TRUE)
    \/ set_row_interval(PyInt(2), PyNone)

SpecEvict == InitEvict /\ [][NextEvict]_vars

----------------------------------------------------------------------------
(* TableViewer: CSV export and import of the in-memory view *)

\* A cell of PlainTable.data as a Python value: a number or a text
IntCell(n) == [kind |-> "int", v |-> n, s |-> ""]
StrCell(t) == [kind |-> "str", v |-> 0, s |-> t]
BadCell == [kind |-> "ValueError", v |-> 0, s |-> ""]

\* The texts a text column holds where PlainData has 0, 1, 2: they sort as
\* the numbers do.
Words == <<"a", "b", "c">>

\* data[r, j], the cell of logical column j that PlainData gives as n
DataCell(j, n) ==
    IF At(data_types, j) = "int" THEN IntCell(n) ELSE StrCell(Words[n + 1])

\* Table.GetValue(row, col) as a Python value
Plain_CellValue(row, col) == DataCell(At(col_order, col), PlainGetValue(row, col))

\* What csv.writer writes for a value: str(value)
CsvText(cell) == IF cell.kind = "int" THEN ToString(cell.v) ELSE cell.s

save_to_csv ==
    LET header == [c \in 1..Plain_GetNumberCols |->
                      Plain_GetColLabelValueWithoutDecoration(c - 1)]
        rows == [r \in 1..Plain_GetNumberRows |->
                    [c \in 1..Plain_GetNumberCols |->
                        CsvText(Plain_CellValue(r - 1, c - 1))]]
    IN  /\ csv_file' = <<header>> \o rows
        /\ call' = [op |-> "save_to_csv"]
        /\ ret' = [err |-> "", val |-> 0]
        /\ UNCHANGED dbvars
        /\ UNCHANGED plainvars
        /\ UNCHANGED <<_rows, _cols, grid_rows, grid_cols, data_types,
                       plain_key_indices, loaded>>

\* The numbers a cell of the file can spell
CsvNumbers == {PlainData[r][c] : r \in 1..PlainRows, c \in 1..PlainCols}

\* int(text) succeeds
IsIntText(t) == \E n \in CsvNumbers : ToString(n) = t

\* int(text)
ParseInt(t) == CHOOSE n \in CsvNumbers : ToString(n) = t

\* db.InferColTypesFromData(rows, ncols): a column is INT when every cell
\* of it spells a number, VARCHAR otherwise.
InferColTypesFromData(rows, ncols) ==
    [c \in 1..ncols |->
        IF \A r \in 1..Len(rows) : IsIntText(rows[r][c]) THEN "INT" ELSE "VARCHAR"]

\* load_csv's test for a header row
HasHeaderRow(first_row_types, coltypes) ==
    /\ ~(\A c \in 1..Len(coltypes) : first_row_types[c] = coltypes[c])
    /\ \A c \in 1..Len(first_row_types) : first_row_types[c] = "VARCHAR"
    /\ ~(\A c \in 1..Len(coltypes) : coltypes[c] = "VARCHAR")

\* coltypes[i](v): int(v) or str(v)
Convert(coltype, t) ==
    IF coltype = "INT"
    THEN IF IsIntText(t) THEN IntCell(ParseInt(t)) ELSE BadCell
    ELSE StrCell(t)

\* The labels PlainTable gives itself when it gets none
ABC == <<"A", "B", "C">>

load_csv ==
    LET dtable == csv_file
        ncols == Len(dtable[1])
        first_row_types == InferColTypesFromData(<<dtable[1]>>, ncols)
        coltypes == InferColTypesFromData(Tail(dtable), ncols)
        has_header_row == HasHeaderRow(first_row_types, coltypes)
        labels == IF has_header_row THEN dtable[1] ELSE SubSeq(ABC, 1, ncols)
        rows == IF has_header_row THEN Tail(dtable) ELSE dtable
        data == [r \in 1..Len(rows) |->
                    [c \in 1..ncols |-> Convert(coltypes[c], rows[r][c])]]
    IN  /\ csv_file # <<>>
        /\ loaded' = [labels |-> labels, data |-> data]
        /\ call' = [op |-> "load_csv"]
        /\ ret' = IF \E r \in 1..Len(data), c \in 1..ncols : data[r][c] = BadCell
                  THEN [err |-> "ValueError", val |-> 0]
                  ELSE [err |-> "", val |-> 0]
        /\ UNCHANGED dbvars
        /\ UNCHANGED plainvars
        /\ UNCHANGED <<_rows, _cols, grid_rows, grid_cols, data_types,
                       plain_key_indices, csv_file>>

\* An in-memory view of numbers, of texts, or of both; it is sorted and
\* projected, then exported, and the file is loaded into a new viewer.
CsvTypeChoices ==
    {<<"int", "int", "int">>, <<"str", "int", "int">>, <<"str", "str", "str">>}

InitCsv ==
    /\ DBInit(ImageTable)
    /\ \E types \in CsvTypeChoices :
          PlainTableInit(types, [kind |-> "None", v |-> <<>>])
    /\ call = NoCall
    /\ ret = NoRet

NextCsv ==
    \/ csv_file = <<>> /\ NextPlain
    \/ csv_file = <<>> /\ save_to_csv
    \/ call.op = "save_to_csv" /\ load_csv

SpecCsv == InitCsv /\ [][NextCsv]_vars

\* The viewer's grid over the database view.  on_show_hide_cols and
\* OnPrev, OnNext, OnEditMin, OnEditMax are two statements each, a call of
\* the table and ResetView: nothing else runs between the two.  set_filter
\* has no caller in the viewer and is called on the table directly.  The
\* grid reads the cells it believes the table has.
InHandler == call.op \in {"DBTable.set_shown_columns", "set_row_interval"}

\* The texts of the row_min and row_max fields
RowMinTexts == {1, 3}
RowMaxTexts == {5, 12}
GridReadRows == {0, 3, 8}

NextGrid ==
    \/ ~InHandler /\ \E ci \in ShownChoices : DB_set_shown_columns(ci)
    \/ ~InHandler /\ \E a \in RowMinTexts, b \in RowMaxTexts :
                         set_row_interval(PyInt(a - 1), PyInt(b))
    \/ InHandler /\ ResetView
    \/ ~InHandler /\ \E f \in Filters : set_filter(f)
    \/ ~InHandler /\ \E c \in SortChoices : DB_set_sort_col(c, FALSE)
    \/ ~InHandler /\ \E row \in GridReadRows, col \in ReadCols :
                         row < grid_rows /\ col < grid_cols /\ GetValue(row, col)

SpecGrid == InitDB /\ [][NextGrid]_vars

----------------------------------------------------------------------------
(* Properties of the database view *)

DBMutators == {"DBTable.set_shown_columns", "DBTable.set_sort_col", "set_row_interval"}

CacheEmpty == cache.keys = <<>> /\ DOMAIN cache.data = {}

\* C1: right after set_shown_columns, set_sort_col (add or not) or
\* set_row_interval (accepted or rejected) returns, the row cache is empty,
\* whatever it held before.
C1_MutatorsEmptyCache == call.op \in DBMutators => CacheEmpty

\* A row interval was rejected while the cache held rows, and the cache is
\* empty afterwards.
C1_Witness ==
    /\ call.op = "set_row_interval"
    /\ ret.err # ""
    /\ call.cached
    /\ CacheEmpty

\* C2: after set_filter has changed the filter, no entry fetched under the
\* previous filter is left in the cache.
C2_FilterEmptiesCache ==
    (call.op = "set_filter" /\ call.old # filter) => CacheEmpty

\* What an uncached query of the store returns for logical row `row` and
\* shown column `col` under the sort state, projection, filter and row
\* interval in force: one SELECT ... LIMIT row + rmin, 1.
FreshCell(row, col) ==
    LET r == row + rmin
        one == Select(table_name, ShownLabels, filter, order_by,
                      order_direction, r, 1)
    IN  IF r >= 0 /\ Len(one) = 1
        THEN [err |-> "", val |-> At(one[1], col)]
        ELSE [err |-> "KeyError", val |-> 0]

\* C3: over an unchanging store, whatever set_sort_col, set_shown_columns,
\* set_row_interval and GetValue calls came before, GetValue(row, col)
\* returns the cell an uncached query returns for absolute row row + rmin and
\* shown column col under the current sort columns, direction and
\* projection (and fails exactly when that row does not exist).
C3_ReadsAreFresh == call.op = "GetValue" => ret = FreshCell(call.row, call.col)

\* A read served from the cache, under a sort state, a projection and a row
\* interval that all differ from the initial ones.
C3_Witness ==
    /\ call.op = "GetValue"
    /\ ~call.miss
    /\ ret.err = ""
    /\ order_by = <<"Count", "ImageNumber">>
    /\ order_direction = DESC
    /\ shown_columns = <<2, 0>>
    /\ rmin = 2

C6_WindowRowCount ==
    (/\ call.op = "set_row_interval"
     /\ ret.err = ""
     /\ call.rmin.kind = "int" /\ call.rmin.v >= 0
     /\ call.rmax.kind = "int" /\ call.rmax.v >= 0)
    => GetNumberRows = Min(rmax, get_total_number_of_rows) - rmin + 1

\* C7: under a row interval with non-negative bounds, GetNumberRows is not
\* negative and every logical row below it can be read: GetValue(row, col)
\* with 0 <= row < GetNumberRows returns a cell of an existing store row.
C7_AdvertisedRowsReadable ==
    (rmin >= 0 /\ rmax >= 0) =>
        /\ GetNumberRows >= 0
        /\ (call.op = "GetValue" /\ 0 <= call.row /\ call.row < GetNumberRows)
             => (ret.err = "" /\ call.row + rmin < get_total_number_of_rows)

\* A bound that is given and is not a non-negative integer
BadBound(x) == x.kind = "str" \/ (x.kind = "int" /\ x.v < 0)

\* C8: set_row_interval fails whenever a given bound is not a non-negative
\* integer, a negative integer like a non-numeric value, and only accepted
\* bounds are stored: rmin and rmax are never negative.
C8_BadIntervalRejected ==
    /\ (call.op = "set_row_interval" /\ (BadBound(call.rmin) \/ BadBound(call.rmax)))
         => ret.err # ""
    /\ rmin >= 0
    /\ rmax >= 0

----------------------------------------------------------------------------
(* Properties of the in-memory view *)

IsPermutation(order) ==
    /\ Len(order) = PlainRows
    /\ Range(order) = 0..(PlainRows - 1)

\* Row a comes strictly before row b when the rows are compared on the data
\* columns cols, the first column of cols deciding first.
LexLess(a, b, cols) ==
    \E k \in 1..Len(cols) :
        /\ \A m \in 1..(k - 1) : At(DataCol(cols[m]), a) = At(DataCol(cols[m]), b)
        /\ At(DataCol(cols[k]), a) < At(DataCol(cols[k]), b)

\* order is the stable ascending lexicographic sort of the rows keyed on
\* cols[1], then cols[2], ...: rows that tie on every column keep the order
\* of their row indices.
IsStableLexOrder(order, cols) ==
    /\ IsPermutation(order)
    /\ \A i, j \in 1..Len(order) :
          i < j => \/ LexLess(order[i], order[j], cols)
                   \/ (~LexLess(order[j], order[i], cols) /\ order[i] < order[j])

PlainClick(add) == call.op = "PlainTable.set_sort_col" /\ call.add = add

\* What a click without shift does when it flips
Flipped ==
    /\ row_order = Reverse(call.pre.row_order)
    /\ sortdir = -call.pre.sortdir
    /\ sortcols = call.pre.sortcols

\* What a click without shift does when it sorts afresh: the sort list is
\* the clicked column alone, the direction is the default, and the rows are
\* ordered on the data column displayed at the clicked position.
SortedAfresh ==
    /\ sortcols = <<call.col_index>>
    /\ sortdir = 1
    /\ IsStableLexOrder(row_order, <<At(col_order, call.col_index)>>)

\* C9 as stated: set_sort_col(c, add=False) flips only when c is the sole
\* sort column; in every other case, c being one of several sort columns
\* included, it sorts afresh on c.
C9_FlipOnlyWhenSole ==
    PlainClick(FALSE) =>
        IF call.pre.sortcols = <<call.col_index>> THEN Flipped ELSE SortedAfresh

\* C9 amended: set_sort_col(c, add=False) flips whenever c is among the sort
\* columns, alone or not, and leaves the sort list as it is; otherwise it
\* sorts afresh on c.
C9_FlipWhenAmongSortCols ==
    PlainClick(FALSE) =>
        IF InSeq(call.pre.sortcols, call.col_index) THEN Flipped ELSE SortedAfresh

\* A click without shift on one of two sort columns has flipped the order.
C9_Witness ==
    /\ PlainClick(FALSE)
    /\ Len(call.pre.sortcols) = 2
    /\ InSeq(call.pre.sortcols, call.col_index)
    /\ row_order # call.pre.row_order
    /\ Flipped

\* C10 as stated: after an add=True toggle that leaves two or more sort
\* columns, the rows are in stable lexicographic order keyed first on the
\* column added last, then on the earlier ones.
C10_LastAddedIsPrimary ==
    (PlainClick(TRUE) /\ Len(sortcols) >= 2) =>
        IsStableLexOrder(row_order, Reverse(sortcols))

\* C10 amended: after such a toggle the rows are in stable lexicographic
\* order keyed first on the column added first, then on the later ones, the
\* sort columns being indices into the data.
C10_FirstAddedIsPrimary ==
    (PlainClick(TRUE) /\ Len(sortcols) >= 2) =>
        IsStableLexOrder(row_order, sortcols)

\* Column 0 then column 1 were toggled on, and the order is not the one
\* keyed first on column 1.
C10_Witness ==
    /\ PlainClick(TRUE)
    /\ sortcols = <<0, 1>>
    /\ row_order = <<3, 1, 2, 0, 4>>
    /\ ~IsStableLexOrder(row_order, <<1, 0>>)

\* C11: two add=True toggles in a row of a column that was not in the sort
\* list leave the row order as it was before the first of them, from any
\* state: flipped direction and narrowed projection included.
C11_AddTwiceRestoresOrder ==
    (/\ PlainClick(TRUE)
     /\ call.prev.op = "PlainTable.set_sort_col"
     /\ call.prev.add
     /\ call.prev.col_index = call.col_index
     /\ ~InSeq(call.prev.pre.sortcols, call.col_index))
    => row_order = call.prev.pre.row_order

\* C12: in a run of add=False clicks on one column that was not a sort
\* column before the first, the order after the second click is the exact
\* reverse of the order after the first with the direction flipped once,
\* and every further click reverses again: odd clicks give the order of the
\* first, even clicks its reverse.
C12_RepeatClicksAlternate ==
    (PlainClick(FALSE) /\ call.run.n > 0) =>
        IF call.run.n % 2 = 1
        THEN row_order = call.run.order /\ sortdir = 1
        ELSE row_order = Reverse(call.run.order) /\ sortdir = -1

\* The third click of such a run, on a column with repeated values.
C12_Witness ==
    /\ PlainClick(FALSE)
    /\ call.run.n = 3
    /\ call.pre.row_order = Reverse(row_order)
    /\ call.prev.pre.row_order = row_order
    /\ row_order # Reverse(row_order)

\* Rows that are equal in all the data columns cols appear in order in the
\* order of their row indices.
TiesInIndexOrder(order, cols) ==
    \A i, j \in 1..Len(order) :
        (i < j /\ \A k \in 1..Len(cols) :
                     At(DataCol(cols[k]), order[i]) = At(DataCol(cols[k]), order[j]))
        => order[i] < order[j]

\* The data columns shown at the positions the sort list names
ShownSortCols == [k \in 1..Len(sortcols) |-> At(col_order, sortcols[k])]

\* C13 as stated, for the view that shows every column in its original
\* place: whenever the sort list is not empty, in either direction, rows
\* equal in all active sort columns appear in the order of their row
\* indices.
C13_StableInEitherDirection ==
    (sortcols # <<>> /\ col_order = Arange(PlainCols))
        => TiesInIndexOrder(row_order, ShownSortCols)

\* C13 amended: a set_sort_col call that sorts leaves tied rows in the order
\* of their row indices (a click without shift on a new column sorts on the
\* data column shown at that position, a shift toggle that leaves a
\* non-empty list sorts on the data columns the list names); a click without
\* shift on an active sort column reverses the whole order, tied rows
\* included.
C13_SortsStableFlipsReverse ==
    (call.op = "PlainTable.set_sort_col") =>
        IF call.add
        THEN sortcols # <<>> => TiesInIndexOrder(row_order, sortcols)
        ELSE IF InSeq(call.pre.sortcols, call.col_index)
             THEN row_order = Reverse(call.pre.row_order)
             ELSE TiesInIndexOrder(row_order, <<At(col_order, call.col_index)>>)

\* A click without shift on the sort column of a stably sorted view has
\* reversed the order, and tied rows now appear in decreasing order of row
\* index.
C13_Witness ==
    /\ PlainClick(FALSE)
    /\ InSeq(call.pre.sortcols, call.col_index)
    /\ TiesInIndexOrder(call.pre.row_order, ShownSortCols)
    /\ ~TiesInIndexOrder(row_order, ShownSortCols)

\* The row order of the view that is freshly constructed and then brought to
\* the sort state (cols, dir) by a click on cols[1], shift-clicks on the
\* rest of cols in order, and one more click on cols[1] when dir is -1.
OrderOfFreshView(cols, dir) ==
    IF cols = <<>> THEN Arange(PlainRows)
    ELSE IF dir = 1 THEN Lexsort(AddKeys(cols))
    ELSE Reverse(Lexsort(AddKeys(cols)))

\* C14: the sort-column list and the direction flag determine the row
\* order: every reachable state has the row order of the freshly
\* constructed view brought to the same sort state, whatever clicks and
\* projections led to it.
C14_SortStateDeterminesOrder ==
    row_order = OrderOfFreshView(sortcols, sortdir)

\* C15: row_order is always a permutation of the row indices, and it is the
\* identity right after a shift toggle has emptied the sort list.
C15_PermutationAndReset ==
    /\ IsPermutation(row_order)
    /\ (PlainClick(TRUE) /\ sortcols = <<>>) => row_order = Arange(PlainRows)

\* A shift toggle has emptied the sort list of a view whose rows were not
\* in identity order.
C15_Witness ==
    /\ PlainClick(TRUE)
    /\ sortcols = <<>>
    /\ call.pre.row_order # Arange(PlainRows)
    /\ row_order = Arange(PlainRows)

----------------------------------------------------------------------------
(* Properties of both views *)

\* C16: in both views set_shown_columns leaves the sort list, the direction
\* and, in memory, the row order as they were, and set_sort_col leaves the
\* shown columns and the number of columns as they were.
C16_ProjectionAndSortIndependent ==
    [][/\ (call'.op = "PlainTable.set_shown_columns")
            => UNCHANGED <<sortcols, sortdir, row_order>>
       /\ (call'.op = "DBTable.set_shown_columns")
            => UNCHANGED <<order_by, order_direction>>
       /\ (call'.op = "PlainTable.set_sort_col")
            => (UNCHANGED col_order /\ Len(ordered_data'[1]) = Len(ordered_data[1]))
       /\ (call'.op = "DBTable.set_sort_col")
            => (UNCHANGED shown_columns /\ GetNumberCols' = GetNumberCols)]_vars

\* The projection of a view sorted on two columns, flipped, has changed.
C16_Witness ==
    /\ call.op = "PlainTable.set_shown_columns"
    /\ call.old # col_order
    /\ Len(sortcols) = 2
    /\ sortdir = -1
    /\ row_order # Arange(PlainRows)

C18_SetValueChangesNothing ==
    [][/\ (call'.op \in {"PlainTable.SetValue", "DBTable.SetValue"}) =>
            /\ ret'.err = ""
            /\ UNCHANGED <<sortdir, sortcols, row_order, col_order, ordered_data>>
            /\ UNCHANGED <<table_name, filter, cache, shown_columns, order_by,
                           order_direction, rmin, rmax>>
       /\ (call'.op = "PlainTable.SetValue") =>
            \A r \in 0..(PlainRows - 1), c \in 0..(Len(col_order) - 1) :
                PlainGetValue(r, c)' = PlainGetValue(r, c)
       /\ (call'.op = "DBTable.SetValue") =>
            \A r \in ReadRows : GetValueRow(r)' = GetValueRow(r)]_vars

\* SetValue was called on a sorted in-memory view.
C18_Witness ==
    /\ call.op = "PlainTable.SetValue"
    /\ ret.err = ""
    /\ sortcols # <<>>
    /\ row_order # Arange(PlainRows)

\* The two views of SpecPair have received the same clicks.
SameClicks == call.op \in {"__init__", "PlainTable.set_sort_col"}

\* C19: after the same set_sort_col calls, the initial state included, the
\* database view and the in-memory view have the same sort columns at the
\* same positions and the same direction, and so the same decorated labels.
C19_ViewsAgreeOnSortState ==
    SameClicks =>
        /\ order_by = [i \in 1..Len(sortcols) |-> At(PlainColLabels, sortcols[i])]
        /\ (order_direction = ASC) <=> (sortdir > 0)
        /\ \A c \in 0..(GetNumberCols - 1) :
               DB_GetColLabelValue(c) = Plain_GetColLabelValue(c)

\* The key get_row_key is to return for a row of the view
ExpectedKey(row) ==
    Select(table_name,
           IF table_name = ImageTable THEN image_key_columns ELSE object_key_columns,
           filter, order_by, order_direction, row, 1)[1]

\* C20: get_image_keys_at_row returns the row key itself for the image
\* table, the row key without its last component for the object table, and
\* fails with NotImplementedError, and with nothing else, for any other
\* table.
C20_ImageKeysOrNotImplemented ==
    (call.op = "get_image_keys_at_row") =>
        IF table_name = ImageTable
        THEN ret = [err |-> "", val |-> <<ExpectedKey(call.row)>>]
        ELSE IF table_name = ObjectTable
        THEN ret = [err |-> "", val |-> <<DropLast(ExpectedKey(call.row), 1)>>]
        ELSE ret.err = "NotImplementedError"

----------------------------------------------------------------------------
(* Properties of the viewer *)

\* C21: whenever the grid reads a cell, the row and column counts it
\* believes in are the view's GetNumberRows() and GetNumberCols(): every
\* change of a count by set_shown_columns, set_row_interval or set_filter
\* was followed by a ResetView before the read; and right after a ResetView
\* the grid's counts are the view's, the grid having been told exactly the
\* difference.
C21_GridKnowsCounts ==
    /\ call.op = "GetValue" =>
          grid_rows = GetNumberRows /\ grid_cols = GetNumberCols
    /\ call.op = "ResetView" =>
          /\ grid_rows = GetNumberRows /\ grid_cols = GetNumberCols
          /\ call.rows_msg.n = Max(grid_rows - call.old_rows, call.old_rows - grid_rows)
          /\ call.cols_msg.n = Max(grid_cols - call.old_cols, call.old_cols - grid_cols)

\* The texts of the cells the view displays, row by row
DisplayedTexts ==
    [r \in 1..Plain_GetNumberRows |->
        [c \in 1..Plain_GetNumberCols |-> CsvText(Plain_CellValue(r - 1, c - 1))]]

\* The texts of the cells of the view load_csv built
LoadedTexts ==
    [r \in 1..Len(loaded.data) |->
        [c \in 1..Len(loaded.data[r]) |-> CsvText(loaded.data[r][c])]]

\* C22: the file save_to_csv writes is one row of the undecorated labels of
\* the shown columns and then one row per displayed row, in display order;
\* the view load_csv builds from it has the same number of rows, in the
\* same order, with the same cell values up to the coercion of texts that
\* spell numbers, whatever the types of the columns.
C22_CsvRoundTrip ==
    /\ call.op = "save_to_csv" =>
          /\ Len(csv_file) = 1 + Plain_GetNumberRows
          /\ Head(csv_file) = [c \in 1..Plain_GetNumberCols |->
                                  Plain_GetColLabelValueWithoutDecoration(c - 1)]
          /\ Tail(csv_file) = DisplayedTexts
    /\ call.op = "load_csv" =>
          /\ Len(loaded.data) = Plain_GetNumberRows
          /\ LoadedTexts = DisplayedTexts

----------------------------------------------------------------------------
(* Further properties of the database view *)

\* The absolute rows of the batch a miss at the row just read fetched: the
\* rows of [r - 25, r + 25), clipped at 0, that the store has
BatchRows ==
    LET r == call.row + rmin
    IN  Max(r - HalfBatch, 0)..(Min(r + HalfBatch, get_total_number_of_rows) - 1)

\* The rows that last entered the cache: those the batch brought and the
\* cache did not hold before the call
FreshRows == Range(LastN(ins_log, call.new))

\* C23 as claimed: right after a GetValue that missed, every row of the
\* fetched batch is in the cache, eviction or not.
C23_BatchCached ==
    (call.op = "GetValue" /\ call.miss) =>
        \A k \in BatchRows : OdictHas(cache, k)

\* C23, amended: right after a GetValue that missed, every row of the batch
\* that the cache did not hold before the call is in the cache, and if the
\* call evicted nothing so is every row of the batch.
C23_FreshBatchRowsCached ==
    (call.op = "GetValue" /\ call.miss) =>
        /\ FreshRows \subseteq BatchRows
        /\ \A k \in FreshRows : OdictHas(cache, k)
        /\ call.peak <= CacheHigh => \A k \in BatchRows : OdictHas(cache, k)

\* A miss has evicted rows of its own batch: rows the cache had held since
\* an early fetch, while the rows the batch brought are all there.
C23_Witness ==
    /\ call.op = "GetValue"
    /\ call.miss
    /\ call.peak > CacheHigh
    /\ call.new > 0
    /\ \E k \in BatchRows : ~OdictHas(cache, k)

\* C24: under any row interval get_row_key(row) returns the key columns of
\* the store row whose cells GetValue(row, col) returns, the row at
\* absolute position row + rmin under the current sort and filter.
C24_RowKeyOfRowRead ==
    (call.op = "get_row_key" /\ key_indices.kind = "list"
        /\ GetValueRow(call.row).err = "") =>
        /\ ret.err = ""
        /\ ret.val = [i \in 1..Len(key_indices.v) |->
                         At(GetValueRow(call.row).row, key_indices.v[i])]

\* C28: GetValue(row, col) queries the store exactly once when the cache
\* does not hold absolute row row + rmin, and not at all when it does; a
\* read of a cached row leaves the cache as it is.
C28_QueryOnlyOnMiss ==
    [][call'.op = "GetValue" =>
          /\ call'.selects = (IF OdictHas(cache, call'.row + rmin) THEN 0 ELSE 1)
          /\ OdictHas(cache, call'.row + rmin) => cache' = cache]_vars

\* A read has been served from a cache that other reads had filled.
C28_Witness ==
    /\ call.op = "GetValue"
    /\ ~call.miss
    /\ call.selects = 0
    /\ OdictLen(cache) > 1

\* C29: when GetValue misses at an absolute row the store has, the row is
\* in the cache when the call returns, eviction or not, and the call
\* returns its freshly fetched value.
C29_ReadRowSurvivesEviction ==
    (call.op = "GetValue" /\ call.miss
        /\ call.row + rmin < get_total_number_of_rows) =>
        /\ OdictHas(cache, call.row + rmin)
        /\ ret.err = ""
        /\ ret = FreshCell(call.row, call.col)

\* A miss past the high-water mark has evicted rows and returned its cell.
C29_Witness ==
    /\ call.op = "GetValue"
    /\ call.miss
    /\ call.peak > CacheHigh
    /\ OdictLen(cache) = CacheLow
    /\ OdictHas(cache, call.row + rmin)
    /\ ret.err = ""

----------------------------------------------------------------------------
(* Further properties of the in-memory view *)

\* The values of the key columns, by logical column index, of the data row
\* displayed at position row
LogicalKey(row) ==
    [i \in 1..Len(plain_key_indices.v) |->
        At(PlainData[At(row_order, row) + 1], plain_key_indices.v[i])]

\* C25: with key columns and the 'image' grouping, get_row_key(row) returns
\* the values of the key columns of the data row displayed at row, and
\* get_image_keys_at_row(row) the list of that one key, whatever the sort
\* state and the shown columns; without key columns both return None.
C25_PlainKeysAreLogical ==
    /\ call.op = "PlainTable.get_row_key" =>
          IF plain_key_indices.kind = "None"
          THEN ret = [err |-> "", val |-> "None"]
          ELSE ret = [err |-> "", val |-> LogicalKey(call.row)]
    /\ call.op = "PlainTable.get_image_keys_at_row" =>
          IF plain_key_indices.kind = "None"
          THEN ret = [err |-> "", val |-> "None"]
          ELSE ret = [err |-> "", val |-> <<LogicalKey(call.row)>>]

\* The data columns the rows are ordered by after a set_sort_col call that
\* sorted: the columns of the sort list after a toggle, the column shown at
\* the clicked position after a click without shift.
SortedOn ==
    IF call.add THEN Range(sortcols) ELSE {At(col_order, call.col_index)}

\* C26: after a set_sort_col call that sorted, GetColLabelValue(i) is
\* decorated exactly when the column displayed at position i is one of the
\* columns the rows are ordered by; a decorated label shows a position in
\* the sort list exactly when the list has more than one column, and the
\* glyph of the direction.
C26_DecorationOnOrderingColumns ==
    (call.op = "PlainTable.set_sort_col"
        /\ (call.add \/ ~InSeq(call.pre.sortcols, call.col_index))) =>
        \A i \in 0..(Len(col_order) - 1) :
            LET label == Plain_GetColLabelValue(i)
            IN  /\ label.arrow # "" <=> At(col_order, i) \in SortedOn
                /\ label.arrow # "" =>
                      /\ label.arrow = (IF sortdir > 0 THEN "v" ELSE "^")
                      /\ label.rank > 0 <=> Len(sortcols) > 1

\* C27: set_shown_columns with an index outside the column range fails and
\* leaves the view as it was: col_order and the displayed data are those
\* before the call, and the number of columns is the number of labels.
C27_BadColumnsRejected ==
    (call.op = "PlainTable.set_shown_columns" /\ ~ValidColumns(call.col_indices)) =>
        /\ ret.err # ""
        /\ col_order = call.old
        /\ ordered_data = Take(row_order, call.old)
        /\ Plain_GetNumberCols = Len(col_order)
====